---- MODULE Spec2Model ----
(***************************************************************************)
(* Lead intake service (src/main.py): POST /api/leads validates the        *)
(* contact, builds a Lead, tries to persist it, schedules an e-mail        *)
(* notification as a background task and answers.                          *)
(*                                                                         *)
(* Strings are sequences of one-character strings.  An optional value is   *)
(* a sequence of length 0 or 1.                                            *)
(***************************************************************************)
EXTENDS Naturals, Sequences, FiniteSets

VARIABLES
    env,         \* os.environ at process start: a function from the set variables to their values
    pc,          \* per request: "idle", "received" (body parsed), "returned" (handler ended),
                 \* "responded" (response sent)
    payload,     \* per request: the LeadIn body received (<<>> before receipt)
    result,      \* per request: what create_lead returned or raised (<<>> before)
    response,    \* per request: the HTTP response sent (<<>> before)
    storeCalls,  \* per request: the Leads passed to create_document, in order
    db,          \* the document store: the set of inserted documents
    scheduled,   \* per request: the Leads passed to background_tasks.add_task, in order
    task,        \* per request: the background task: "none", "queued", "sending", "done", "raised"
    outcome,     \* per request: how send_email_notification ended: "none", "skipped", "sent", "logged"
    netcalls,    \* per request: the calls made on the mail relay, in order
    peer,        \* per request: <<host, port>> the relay connection was opened to (<<>> if none)
    runs,        \* per request: how many times send_email_notification was entered
    events       \* per request: the steps taken, in order

vars == <<env, pc, payload, result, response, storeCalls, db, scheduled,
          task, outcome, netcalls, peer, runs, events>>

----------------------------------------------------------------------------
(* Bounds *)

NumReqs == 2          \* concurrent requests
MaxContactLen == 7    \* longest contact of the intake specification
MaxNameLen == 2       \* longest name / brand of the intake specification

Reqs == 1..NumReqs

----------------------------------------------------------------------------
(* Characters *)

Space == {" ", "\t", "\n"}                                     \* \s, str.strip()
Digit == {"0", "1", "2", "3", "4", "5", "6", "7", "8", "9"}     \* 0-9
PhoneChar == Digit \cup {"+", "(", ")", "-"} \cup Space        \* [0-9+()\-\s]

\* whether character c is in a character class of the two patterns
InClass(class, c) ==
    CASE class = "[^@\\s]" -> c # "@" /\ c \notin Space
      [] class = "[0-9+()\\-\\s]" -> c \in PhoneChar

MinPhoneLen == 7                                               \* {7,}

----------------------------------------------------------------------------
(* str.strip(): drop leading, then trailing whitespace *)

RECURSIVE lstrip(_)
lstrip(s) == IF s # <<>> /\ Head(s) \in Space THEN lstrip(Tail(s)) ELSE s

RECURSIVE rstrip(_)
rstrip(s) ==
    IF s # <<>> /\ s[Len(s)] \in Space THEN rstrip(SubSeq(s, 1, Len(s) - 1)) ELSE s

\* variant: only the leading whitespace is dropped
strip_LeftOnly(s) == lstrip(s)

strip(s) == rstrip(lstrip(s))

----------------------------------------------------------------------------
(* re.match: the pattern is matched from position 0; a match may end       *)
(* anywhere unless the pattern says otherwise.  A position is the number   *)
(* of characters consumed; each piece maps the set of positions where it   *)
(* may start to the set of positions where it may end.                     *)

\* X+ for a character class X
Plus(class, s, starts) ==
    {j \in 1..Len(s) :
        \E i \in starts : i < j /\ \A k \in (i + 1)..j : InClass(class, s[k])}

\* X{n,} for a character class X
AtLeast(class, n, s, starts) ==
    {j \in 0..Len(s) :
        \E i \in starts : i + n <= j /\ \A k \in (i + 1)..j : InClass(class, s[k])}

\* a literal character
Lit(c, s, starts) == {i + 1 : i \in {h \in starts : h < Len(s) /\ s[h + 1] = c}}

\* $ : the end of the string, or just before a newline that ends it
AtEnd(s, ends) ==
    {j \in ends : j = Len(s) \/ (j = Len(s) - 1 /\ s[Len(s)] = "\n")}

\* re.match(r"[^@\s]+@[^@\s]+\.[^@\s]+", contact)
email_like(contact) ==
    Plus("[^@\\s]", contact,
         Lit(".", contact,
             Plus("[^@\\s]", contact,
                  Lit("@", contact,
                      Plus("[^@\\s]", contact, {0}))))) # {}

\* variant: the phone pattern asks for one character more
phone_like_OneMore(contact) ==
    AtEnd(contact, AtLeast("[0-9+()\\-\\s]", MinPhoneLen + 1, contact, {0})) # {}

\* re.match(r"^[0-9+()\-\s]{7,}$", contact)
phone_like(contact) ==
    AtEnd(contact, AtLeast("[0-9+()\\-\\s]", MinPhoneLen, contact, {0})) # {}

----------------------------------------------------------------------------
(* Module-level configuration, read from the environment at import *)

EnvVars == {"SMTP_HOST", "SMTP_PORT", "SMTP_USER", "SMTP_PASS"}

\* the values a set variable may hold
EnvValues ==
    [SMTP_HOST |-> {"smtp.example.com"},
     SMTP_PORT |-> {"2525"},
     SMTP_USER |-> {"user"},
     SMTP_PASS |-> {"", "secret"}]

\* every environment: any subset of the variables set, each to one of its values
Environments ==
    UNION {{e \in [S -> UNION {EnvValues[k] : k \in EnvVars}] :
               \A k \in S : e[k] \in EnvValues[k]} : S \in SUBSET EnvVars}

\* int(): decimal text to number
int(text) == CASE text = "587" -> 587 [] text = "2525" -> 2525

\* bool(os.getenv(k)): set and not the empty string
Truthy(k) == k \in DOMAIN env /\ env[k] # ""

SMTP_HOST == IF "SMTP_HOST" \in DOMAIN env THEN <<env["SMTP_HOST"]>> ELSE <<>>
SMTP_PORT == int(IF "SMTP_PORT" \in DOMAIN env THEN env["SMTP_PORT"] ELSE "587")

\* variant: only the host gates sending
EMAIL_ENABLED_HostOnly == Truthy("SMTP_HOST")

EMAIL_ENABLED == Truthy("SMTP_HOST") /\ Truthy("SMTP_USER") /\ Truthy("SMTP_PASS")

----------------------------------------------------------------------------
(* Collaborators *)

\* LeadIn: the request body
LeadIn(name, brand, contact) == [name |-> name, brand |-> brand, contact |-> contact]

\* schemas.Lead
Lead(name, brand, contact, source) ==
    [name |-> name, brand |-> brand, contact |-> contact, source |-> source]

\* database.create_document either inserts the document or raises
StoreOutcomes == {"inserted", "raised"}

\* the calls of one SMTP session, in order
SmtpCalls == <<"connect", "starttls", "login", "sendmail">>

\* a session goes through all its calls, or stops at the one that raises
SessionOutcomes ==
    {[calls |-> Len(SmtpCalls), raised |-> FALSE]}
        \cup {[calls |-> n, raised |-> TRUE] : n \in 1..Len(SmtpCalls)}

----------------------------------------------------------------------------
(* create_lead *)

OkBody == [ok |-> TRUE, message |-> "Lead captured"]
BadContact == [detail |-> "Contact must be a valid email or phone number"]

\* the contact check
ContactOK(contact) == email_like(contact) \/ phone_like(contact)

\* variant: no try/except around create_document
PersistAndSchedule_NoCatch(lead, storeOutcome) ==
    IF storeOutcome = "raised"
    THEN [result     |-> [kind |-> "Exception", status |-> 500, body |-> [detail |-> "Internal Server Error"]],
          storeCalls |-> <<lead>>,
          scheduled  |-> <<>>,
          events     |-> <<"persist", "raise">>]
    ELSE [result     |-> [kind |-> "return", status |-> 200, body |-> OkBody],
          storeCalls |-> <<lead>>,
          scheduled  |-> <<lead>>,
          events     |-> <<"persist", "schedule", "return">>]

\* variant: the except branch returns at once, before the notification is scheduled
PersistAndSchedule_NoNotify(lead, storeOutcome) ==
    [result     |-> [kind |-> "return", status |-> 200, body |-> OkBody],
     storeCalls |-> <<lead>>,
     scheduled  |-> IF storeOutcome = "raised" THEN <<>> ELSE <<lead>>,
     events     |-> IF storeOutcome = "raised"
                    THEN <<"persist", "log_db_error", "return">>
                    ELSE <<"persist", "schedule", "return">>]

\* variant: a failed insert is tried once more
PersistAndSchedule_Retry(lead, storeOutcome) ==
    [result     |-> [kind |-> "return", status |-> 200, body |-> OkBody],
     storeCalls |-> IF storeOutcome = "raised" THEN <<lead, lead>> ELSE <<lead>>,
     scheduled  |-> <<lead>>,
     events     |-> IF storeOutcome = "raised"
                    THEN <<"persist", "log_db_error", "persist", "log_db_error",
                           "schedule", "return">>
                    ELSE <<"persist", "schedule", "return">>]

\* from the persistence attempt to the return: what the handler does with
\* a built lead when create_document ends with storeOutcome
PersistAndSchedule(lead, storeOutcome) ==
    [result     |-> [kind |-> "return", status |-> 200, body |-> OkBody],
     storeCalls |-> <<lead>>,
     scheduled  |-> <<lead>>,
     events     |-> IF storeOutcome = "raised"
                    THEN <<"persist", "log_db_error", "schedule", "return">>
                    ELSE <<"persist", "schedule", "return">>]

\* the whole handler on a payload, for one outcome of the store
create_lead(p, storeOutcome) ==
    LET contact == strip(p.contact) IN
    IF ~ContactOK(contact)
    THEN [result     |-> [kind |-> "HTTPException", status |-> 400, body |-> BadContact],
          storeCalls |-> <<>>,
          scheduled  |-> <<>>,
          events     |-> <<"validate", "raise">>]
    ELSE LET lead == Lead(strip(p.name), strip(p.brand), contact, "website")
             rest == PersistAndSchedule(lead, storeOutcome)
         IN  [rest EXCEPT !.events = <<"validate", "construct">> \o rest.events]

----------------------------------------------------------------------------
(* send_email_notification *)

\* variant: no try/except around the session
send_end_NoCatch(session) ==
    IF session.raised
    THEN [task |-> "raised", outcome |-> "none"]
    ELSE [task |-> "done", outcome |-> "sent"]

\* how the session's try/except ends the task
send_end(session) ==
    [task    |-> "done",
     outcome |-> IF session.raised THEN "logged" ELSE "sent"]

\* variant: the notification runs as soon as it is scheduled
TaskReady_Eager(r) == task[r] = "queued"

\* Starlette runs a response's background tasks once the response is sent
TaskReady(r) == task[r] = "queued" /\ pc[r] = "responded"

----------------------------------------------------------------------------
(* Request bodies *)

\* the bodies of the concurrent specification
SamplePayloads ==
    {[name    |-> <<" ", "J", "a", "n", "e", " ">>,
      brand   |-> <<"A", "c", "m", "e">>,
      contact |-> <<" ", "j", "@", "e", ".", "c", "\n">>],
     [name    |-> <<"B", "o">>,
      brand   |-> <<"\t", "B", " ", "C", "o">>,
      contact |-> <<"+", "1", " ", "(", "5", "5", "5", ")", " ", "1", "2", "-", "4", "5">>],
     [name    |-> <<"J">>,
      brand   |-> <<"A">>,
      contact |-> <<"b", "a", "d">>]}

\* the strings over alphabet of length at most n
Strings(alphabet, n) == UNION {[1..k -> alphabet] : k \in 0..n}

ContactAlphabet == {"a", "@", ".", " ", "1"}
NameAlphabet == {"J", " "}

\* the bodies of the intake specification: every contact with a fixed name
\* and brand, and every name and brand with a fixed contact
IntakePayloads ==
    {[name |-> <<"J">>, brand |-> <<"A">>, contact |-> c] :
        c \in Strings(ContactAlphabet, MaxContactLen)}
    \cup
    {[name |-> n, brand |-> b, contact |-> <<"j", "@", "e", ".", "c">>] :
        n \in Strings(NameAlphabet, MaxNameLen), b \in Strings(NameAlphabet, MaxNameLen)}
    \cup
    {[name |-> <<"J">>, brand |-> <<"A">>,
      contact |-> <<" ", "1", "2", "3", "4", "5", "6", "7", "\t">>]}
    \cup SamplePayloads

----------------------------------------------------------------------------
(* The state machine *)

Init ==
    /\ env \in Environments
    /\ pc = [r \in Reqs |-> "idle"]
    /\ payload = [r \in Reqs |-> <<>>]
    /\ result = [r \in Reqs |-> <<>>]
    /\ response = [r \in Reqs |-> <<>>]
    /\ storeCalls = [r \in Reqs |-> <<>>]
    /\ db = {}
    /\ scheduled = [r \in Reqs |-> <<>>]
    /\ task = [r \in Reqs |-> "none"]
    /\ outcome = [r \in Reqs |-> "none"]
    /\ netcalls = [r \in Reqs |-> <<>>]
    /\ peer = [r \in Reqs |-> <<>>]
    /\ runs = [r \in Reqs |-> 0]
    /\ events = [r \in Reqs |-> <<>>]

\* POST /api/leads arrives and its body is parsed into a LeadIn: three strings
Receive(r, p) ==
    /\ pc[r] = "idle"
    /\ pc' = [pc EXCEPT ![r] = "received"]
    /\ payload' = [payload EXCEPT ![r] = <<LeadIn(p.name, p.brand, p.contact)>>]
    /\ UNCHANGED <<env, result, response, storeCalls, db, scheduled,
                   task, outcome, netcalls, peer, runs, events>>

\* the handler runs on the parsed body to its return or raise
CreateLead(r, storeOutcome) ==
    /\ pc[r] = "received"
    /\ LET done == create_lead(payload[r][1], storeOutcome) IN
        /\ pc' = [pc EXCEPT ![r] = "returned"]
        /\ result' = [result EXCEPT ![r] = <<done.result>>]
        /\ storeCalls' = [storeCalls EXCEPT ![r] = done.storeCalls]
        /\ db' = IF storeOutcome = "inserted"
                 THEN db \cup {<<r, done.storeCalls[i]>> : i \in 1..Len(done.storeCalls)}
                 ELSE db
        /\ scheduled' = [scheduled EXCEPT ![r] = done.scheduled]
        /\ task' = [task EXCEPT ![r] = IF done.scheduled # <<>> THEN "queued" ELSE "none"]
        /\ events' = [events EXCEPT ![r] = done.events]
    /\ UNCHANGED <<env, payload, response, outcome, netcalls, peer, runs>>

\* the framework turns what the handler returned or raised into the response
Respond(r) ==
    /\ pc[r] = "returned"
    /\ pc' = [pc EXCEPT ![r] = "responded"]
    /\ response' = [response EXCEPT ![r] =
            <<[status |-> result[r][1].status, body |-> result[r][1].body]>>]
    /\ events' = [events EXCEPT ![r] = Append(@, "respond")]
    /\ UNCHANGED <<env, payload, result, storeCalls, db, scheduled,
                   task, outcome, netcalls, peer, runs>>

\* the background task starts: skip, or compose the message and connect
TaskStart(r) ==
    /\ TaskReady(r)
    /\ runs' = [runs EXCEPT ![r] = @ + 1]
    /\ IF ~EMAIL_ENABLED
       THEN /\ task' = [task EXCEPT ![r] = "done"]
            /\ outcome' = [outcome EXCEPT ![r] = "skipped"]
            /\ events' = [events EXCEPT ![r] = @ \o <<"dispatch", "finish">>]
            /\ UNCHANGED <<netcalls, peer>>
       ELSE /\ task' = [task EXCEPT ![r] = "sending"]
            /\ netcalls' = [netcalls EXCEPT ![r] = <<SmtpCalls[1]>>]
            /\ peer' = [peer EXCEPT ![r] = <<SMTP_HOST[1], SMTP_PORT>>]
            /\ events' = [events EXCEPT ![r] = Append(@, "dispatch")]
            /\ UNCHANGED outcome
    /\ UNCHANGED <<env, pc, payload, result, response, storeCalls, db, scheduled>>

\* the SMTP session runs to its end or to the call that raises
TaskFinish(r, session) ==
    /\ task[r] = "sending"
    /\ netcalls' = [netcalls EXCEPT ![r] = SubSeq(SmtpCalls, 1, session.calls)]
    /\ task' = [task EXCEPT ![r] = send_end(session).task]
    /\ outcome' = [outcome EXCEPT ![r] = send_end(session).outcome]
    /\ events' = [events EXCEPT ![r] = Append(@, "finish")]
    /\ UNCHANGED <<env, pc, payload, result, response, storeCalls, db, scheduled,
                   peer, runs>>

Next ==
    \/ \E r \in Reqs, p \in SamplePayloads : Receive(r, p)
    \/ \E r \in Reqs, s \in StoreOutcomes : CreateLead(r, s)
    \/ \E r \in Reqs : Respond(r)
    \/ \E r \in Reqs : TaskStart(r)
    \/ \E r \in Reqs, o \in SessionOutcomes : TaskFinish(r, o)

Spec == Init /\ [][Next]_vars

\* the scheduler runs every response and every background task
FairSpec ==
    /\ Spec
    /\ \A r \in Reqs : WF_vars(Respond(r))
    /\ \A r \in Reqs : WF_vars(TaskStart(r))
    /\ \A r \in Reqs : WF_vars(\E o \in SessionOutcomes : TaskFinish(r, o))

\* request 1 received with any body, the mail relay not configured
IntakeInit ==
    /\ env = << >>
    /\ pc = [r \in Reqs |-> IF r = 1 THEN "received" ELSE "idle"]
    /\ \E p \in IntakePayloads :
          payload = [r \in Reqs |-> IF r = 1 THEN <<LeadIn(p.name, p.brand, p.contact)>> ELSE <<>>]
    /\ result = [r \in Reqs |-> <<>>]
    /\ response = [r \in Reqs |-> <<>>]
    /\ storeCalls = [r \in Reqs |-> <<>>]
    /\ db = {}
    /\ scheduled = [r \in Reqs |-> <<>>]
    /\ task = [r \in Reqs |-> "none"]
    /\ outcome = [r \in Reqs |-> "none"]
    /\ netcalls = [r \in Reqs |-> <<>>]
    /\ peer = [r \in Reqs |-> <<>>]
    /\ runs = [r \in Reqs |-> 0]
    /\ events = [r \in Reqs |-> <<>>]

IntakeNext == \E s \in StoreOutcomes : CreateLead(1, s)

IntakeSpec == IntakeInit /\ [][IntakeNext]_vars

----------------------------------------------------------------------------
(* The vocabulary of the properties, stated without the handler's operators *)

\* s without its leading and trailing whitespace
Trimmed(s) ==
    LET inked == {k \in 1..Len(s) : s[k] \notin Space} IN
    IF inked = {} THEN <<>>
    ELSE SubSeq(s, CHOOSE i \in inked : \A k \in inked : i <= k,
                   CHOOSE j \in inked : \A k \in inked : k <= j)

\* the whole of s is local@domain.tld: three non-empty runs free of '@' and whitespace
EmailShape(s) ==
    \E i, j \in 1..Len(s) :
        /\ 1 < i /\ i + 1 < j /\ j < Len(s)
        /\ s[i] = "@" /\ s[j] = "."
        /\ \A k \in (1..Len(s)) \ {i, j} : s[k] # "@" /\ s[k] \notin Space

\* the whole of s is at least 7 characters, each a digit, + - ( ) or whitespace
PhoneShape(s) ==
    /\ Len(s) >= 7
    /\ \A k \in 1..Len(s) :
          s[k] \in {"0", "1", "2", "3", "4", "5", "6", "7", "8", "9",
                    "+", "-", "(", ")", " ", "\t", "\n"}

Ended(r) == pc[r] \in {"returned", "responded"}
Accepted(r) == Ended(r) /\ result[r][1].kind = "return"
Rejected(r) == Ended(r) /\ result[r][1].kind = "HTTPException"
InsertFailed(r) == storeCalls[r] # <<>> /\ \A d \in db : d[1] # r
Handed(r) ==
    {storeCalls[r][i] : i \in 1..Len(storeCalls[r])}
        \cup {scheduled[r][i] : i \in 1..Len(scheduled[r])}

Ack == [status |-> 200, body |-> OkBody]
Err400 == [status |-> 400, body |-> BadContact]

----------------------------------------------------------------------------
(* Contact validation *)

\* C1: a request whose trimmed contact is, as a whole string, neither
\* email-shaped nor phone-shaped ends with the 400 and its fixed detail,
\* and no Lead handed to the store or to the dispatcher carries such a contact.
C1_NeitherShapeRejected ==
    \A r \in Reqs :
        /\ (Ended(r) /\ ~EmailShape(Trimmed(payload[r][1].contact))
                     /\ ~PhoneShape(Trimmed(payload[r][1].contact)))
              => /\ result[r] = <<[kind |-> "HTTPException", status |-> 400, body |-> BadContact]>>
                 /\ storeCalls[r] = <<>>
                 /\ scheduled[r] = <<>>
        /\ \A lead \in Handed(r) : EmailShape(lead.contact) \/ PhoneShape(lead.contact)

\* C6, as claimed: every submitted contact that is as a whole email-shaped,
\* and every submitted contact of at least 7 characters drawn from digits,
\* + - ( ) and whitespace, passes the contact check.
C6_ShapesAccepted ==
    \A r \in Reqs :
        (Ended(r) /\ (EmailShape(payload[r][1].contact) \/ PhoneShape(payload[r][1].contact)))
            => Accepted(r)

\* C6, amended: every submitted contact that is as a whole email-shaped, and
\* every submitted contact whose trimmed form has at least 7 characters drawn
\* from digits, + - ( ) and whitespace, passes the contact check.
C6_TrimmedShapesAccepted ==
    \A r \in Reqs :
        (Ended(r) /\ (EmailShape(payload[r][1].contact)
                        \/ PhoneShape(Trimmed(payload[r][1].contact))))
            => Accepted(r)

\* a phone number submitted with surrounding whitespace was accepted
C6_Witness ==
    \E r \in Reqs :
        /\ Accepted(r)
        /\ PhoneShape(Trimmed(payload[r][1].contact))
        /\ Trimmed(payload[r][1].contact) # payload[r][1].contact
        /\ storeCalls[r] # <<>>

\* C7: every Lead handed to the store or to the dispatcher has a non-empty
\* name and a non-empty brand.
C7_NameBrandNonEmpty ==
    \A r \in Reqs : \A lead \in Handed(r) : lead.name # <<>> /\ lead.brand # <<>>

----------------------------------------------------------------------------
(* Persistence and the response *)

\* C2: when the contact passes validation and the insert raises, the
\* handler still schedules the notification for that lead and returns the
\* success acknowledgment, as it does when the insert succeeds.
C2_InsertFailureSwallowed ==
    \A r \in Reqs :
        (Ended(r) /\ ContactOK(strip(payload[r][1].contact)))
            => /\ result[r] = <<[kind |-> "return", status |-> 200, body |-> OkBody]>>
               /\ storeCalls[r] # <<>>
               /\ scheduled[r] = <<storeCalls[r][1]>>
               /\ task[r] # "none"
               /\ response[r] # <<>> => response[r] = <<Ack>>

\* an insert failed, and the request was answered with the acknowledgment
\* and its notification ran
C2_Witness ==
    \E r \in Reqs :
        InsertFailed(r) /\ response[r] = <<Ack>> /\ task[r] = "done" /\ outcome[r] = "sent"

\* C3: whatever the store and the mail relay do, the handler ends with the
\* success acknowledgment or with the 400 contact error, and the caller
\* receives one of these two responses.
C3_TwoResults ==
    \A r \in Reqs :
        /\ result[r] # <<>> =>
              \/ result[r][1] = [kind |-> "return", status |-> 200, body |-> OkBody]
              \/ result[r][1] = [kind |-> "HTTPException", status |-> 400, body |-> BadContact]
        /\ response[r] # <<>> => (response[r][1] = Ack \/ response[r][1] = Err400)
        /\ (response[r] # <<>> /\ storeCalls[r] # <<>>) => response[r][1] = Ack
        /\ (response[r] # <<>> /\ storeCalls[r] = <<>>) => response[r][1] = Err400

\* one request was answered 400 and another, whose insert failed and whose
\* mail session failed, was answered with the acknowledgment
C3_Witness ==
    \E r, q \in Reqs :
        /\ response[r] = <<Err400>>
        /\ response[q] = <<Ack>> /\ InsertFailed(q) /\ outcome[q] = "logged"

\* C9: an accepted request makes exactly one insert attempt and schedules
\* exactly one notification, also when the insert fails; a rejected
\* request makes none of either.
C9_OneAttemptOneNotification ==
    \A r \in Reqs :
        /\ Accepted(r) => (Len(storeCalls[r]) = 1 /\ Len(scheduled[r]) = 1)
        /\ Rejected(r) => (Len(storeCalls[r]) = 0 /\ Len(scheduled[r]) = 0)
        /\ ~Ended(r) => (Len(storeCalls[r]) = 0 /\ Len(scheduled[r]) = 0)
        /\ Cardinality({d \in db : d[1] = r}) <= 1
        /\ runs[r] <= Len(scheduled[r])

\* a rejected request made no attempt, and an accepted request whose insert
\* failed made one and its single notification is over
C9_Witness ==
    \E r, q \in Reqs :
        /\ Rejected(r) /\ storeCalls[r] = <<>> /\ task[r] = "none"
        /\ Accepted(q) /\ InsertFailed(q) /\ task[q] = "done" /\ runs[q] = 1

----------------------------------------------------------------------------
(* The notification *)

IsPrefix(s, full) == Len(s) <= Len(full) /\ s = SubSeq(full, 1, Len(s))

\* the order of the steps of an accepted request, with and without a failed
\* insert, and of a rejected one
StepOrders ==
    {<<"validate", "construct", "persist", "schedule", "return",
       "respond", "dispatch", "finish">>,
     <<"validate", "construct", "persist", "log_db_error", "schedule", "return",
       "respond", "dispatch", "finish">>,
     <<"validate", "raise", "respond">>}

\* C4: the steps of a request occur in the order validation, construction,
\* persistence, scheduling, return, response, and only then the
\* dispatcher; no relay call is made before the response is sent, and the
\* response is ready to go whatever the state of the dispatcher.
C4_ResponseBeforeDispatch ==
    \A r \in Reqs :
        /\ \E order \in StepOrders : IsPrefix(events[r], order)
        /\ (runs[r] > 0 \/ netcalls[r] # <<>> \/ task[r] \in {"sending", "done"})
              => response[r] = <<Ack>>
        /\ pc[r] = "returned" => (response[r] = <<>> /\ runs[r] = 0 /\ ENABLED Respond(r))

\* a response was sent while its notification had not started, and another
\* while its notification was in the middle of the session
C4_Witness ==
    \E r, q \in Reqs :
        /\ response[r] = <<Ack>> /\ task[r] = "queued"
        /\ response[q] = <<Ack>> /\ task[q] = "sending" /\ netcalls[q] # <<>>

\* the three variables that gate sending are set and not empty
Credentials ==
    \A k \in {"SMTP_HOST", "SMTP_USER", "SMTP_PASS"} : k \in DOMAIN env /\ env[k] # ""

\* C5, as claimed: the relay is called only when host, port, username and
\* password are all configured, and when any of the four variables is
\* unset the dispatcher returns without a network call.
C5_AllFourGate ==
    \A r \in Reqs :
        (\E k \in {"SMTP_HOST", "SMTP_PORT", "SMTP_USER", "SMTP_PASS"} : k \notin DOMAIN env)
            => (netcalls[r] = <<>> /\ peer[r] = <<>>)

\* C5, amended: the relay is called only when SMTP_HOST, SMTP_USER and
\* SMTP_PASS are all set and not empty (an unset SMTP_PORT falls back to
\* 587 and does not gate sending); when any of the three is unset or empty
\* the dispatcher returns at once without a network call, and the request
\* that scheduled it has succeeded.
C5_CredentialsGate ==
    \A r \in Reqs :
        /\ (netcalls[r] # <<>> \/ peer[r] # <<>>) => Credentials
        /\ (~Credentials /\ runs[r] > 0)
              => /\ task[r] = "done" /\ outcome[r] = "skipped"
                 /\ netcalls[r] = <<>> /\ peer[r] = <<>>
                 /\ response[r] = <<Ack>>
        /\ (Credentials /\ runs[r] > 0) => peer[r] # <<>>
        /\ (peer[r] # <<>> /\ "SMTP_PORT" \notin DOMAIN env) => peer[r][2] = 587

\* the password is the only variable unset: the dispatcher ran and skipped
C5_Witness ==
    \E r \in Reqs :
        /\ DOMAIN env = {"SMTP_HOST", "SMTP_PORT", "SMTP_USER"}
        /\ runs[r] = 1 /\ outcome[r] = "skipped" /\ response[r] = <<Ack>>

ExpectedLead(p) ==
    [name |-> Trimmed(p.name), brand |-> Trimmed(p.brand),
     contact |-> Trimmed(p.contact), source |-> "website"]

\* C10: in every interleaving, the Lead a request hands to the store and
\* the Lead it hands to the dispatcher are one record, built from the
\* trimmed fields of that request's own payload with source "website";
\* requests with equal payloads get equal responses and equal Leads.
C10_OwnPayloadOnly ==
    /\ \A r \in Reqs :
          storeCalls[r] # <<>> =>
              /\ storeCalls[r] = <<ExpectedLead(payload[r][1])>>
              /\ scheduled[r] = storeCalls[r]
    /\ \A d \in db : d[2] = ExpectedLead(payload[d[1]][1])
    /\ \A r, q \in Reqs :
          (payload[r] = payload[q] /\ Ended(r) /\ Ended(q))
              => /\ result[r] = result[q]
                 /\ storeCalls[r] = storeCalls[q]
                 /\ scheduled[r] = scheduled[q]
                 /\ (pc[r] = "responded" /\ pc[q] = "responded") => response[r] = response[q]

\* two requests with different payloads, the later one's notification
\* over while the earlier one's is still in its session
C10_Witness ==
    \E r, q \in Reqs :
        /\ r < q
        /\ storeCalls[r] # <<>> /\ storeCalls[q] # <<>> /\ storeCalls[r] # storeCalls[q]
        /\ payload[r][1].name # storeCalls[r][1].name
        /\ task[r] = "sending" /\ task[q] = "done" /\ outcome[q] = "sent"

====
